---- MODULE Spec2Model ----
(***************************************************************************)
(* click-type-test: the type-deduction engine (deduce_type_from_parameter) *)
(* the type comparator (_compare_types), concrete-value inference          *)
(* (_type_of_value) and the command checker (check_param_annotations) of   *)
(* src/click_type_test.py, as a state machine over the library's calls.    *)
(*                                                                         *)
(* Type expressions are records.  Python's == on typing objects is the     *)
(* equality of these records: a union is the set of its members (typing's  *)
(* Union and X | Y compare and hash by the set of their arguments), a      *)
(* Literal is the set of its values, a generic alias is its origin, its    *)
(* spelling (typing.Tuple[...] is never == tuple[...]) and its arguments   *)
(* in order.  The order of a union's arguments, which == ignores and       *)
(* get_args shows, travels beside the type wherever it is rendered.        *)
(***************************************************************************)
EXTENDS Integers, Sequences, FiniteSets, TLC

VARIABLES pc, param, heap, deduced, type1, type2, equivalent,
          value, inferred, command, idx, errors, outcome,
          registry, named_type, type_name

vars == <<pc, param, heap, deduced, type1, type2, equivalent,
          value, inferred, command, idx, errors, outcome,
          registry, named_type, type_name>>

\* the variables of a call of _TypeNameMap.get_type_name
naming == <<registry, named_type, type_name>>

(***************************************************************************)
(* Bounds of the model and constants of the program                        *)
(***************************************************************************)
\* the ceiling of `_depth > 20` in _type_of_value
DepthLimit == 20

\* the largest count of calls or warnings the model tells apart
CountCap == 1000000000

\* longest list object among the default values
MaxListLen == 2

\* most members of a union handed to _compare_types
MaxUnion == 3

\* most parameters of a checked command
MaxParams == 2

\* most entries of known_type_names
MaxRegistry == 2

(***************************************************************************)
(* Type expressions                                                        *)
(***************************************************************************)
Cls(n) == [k |-> "cls", n |-> n]

Generic(origin, sp, elems) == [k |-> "generic", origin |-> origin, sp |-> sp, elems |-> elems]

LiteralOf(vals) == [k |-> "literal", vals |-> vals]

UnionOf(members) == [k |-> "union", members |-> members]

\* no annotation, no type: what a missing return annotation or hook yields
Absent == [k |-> "absent"]

StrT == Cls("str")

IntT == Cls("int")

BoolT == Cls("bool")

FloatT == Cls("float")

BytesT == Cls("bytes")

_NoneType == Cls("NoneType")

\* the raw None that deduce_type_from_parameter keeps in possible_types
NonePlaceholder == Cls("None")

AnyT == Cls("Any")

EllipsisT == Cls("Ellipsis")

\* typing.get_args
get_args(ty) ==
    CASE ty.k = "generic" -> ty.elems
      [] OTHER -> << >>

_is_union(ty) == ty.k = "union"

_is_tuple(ty) == ty.k = "generic" /\ ty.origin = "tuple"

IsLiteral(ty) == ty.k = "literal"

Range(s) == {s[j] : j \in DOMAIN s}

\* the sequences that list every element of the set S once: the orders in
\* which a Python set can be iterated
RECURSIVE Orders(_)
Orders(S) ==
    IF S = {} THEN {<< >>}
    ELSE UNION {{<<x>> \o o : o \in Orders(S \ {x})} : x \in S}

\* typing.Union[args]: nested unions are flattened, equal members kept once,
\* a single member is returned as it is, no member is a TypeError
FlattenMembers(S) ==
    UNION {IF _is_union(m) THEN m.members ELSE {m} : m \in S}

MakeUnion(S) ==
    LET flat == FlattenMembers(S)
    IN  IF Cardinality(flat) = 1 THEN CHOOSE m \in flat : TRUE
        ELSE UnionOf(flat)

(***************************************************************************)
(* Values: what a parameter's default can be.  Lists and dicts are objects *)
(* of a heap and are held by reference, so that a list can contain itself. *)
(***************************************************************************)
NoneV == [v |-> "none"]

StrV(s) == [v |-> "str", s |-> s]

IntV(i) == [v |-> "int", i |-> i]

BoolV(b) == [v |-> "bool", b |-> b]

\* an instance of a class without a literal form (a sentinel object)
ObjV(c) == [v |-> "object", c |-> c]

TupleV(items) == [v |-> "tuple", items |-> items]

RefV(id) == [v |-> "ref", id |-> id]

ListObj(items) == [c |-> "list", items |-> items]

\* entries: the (key, value) pairs in insertion order
DictObj(entries) == [c |-> "dict", entries |-> entries]

EmptyHeap == [id \in {} |-> ListObj(<< >>)]

\* value.__class__
ClassOf(val) ==
    CASE val.v = "none" -> _NoneType
      [] val.v = "object" -> Cls(val.c)
      [] OTHER -> Cls(val.v)

Max(a, b) == IF a >= b THEN a ELSE b

\* a + b for the counters of calls and warnings: a count above CountCap
\* is kept as CountCap
Plus(a, b) == IF a + b > CountCap THEN CountCap ELSE a + b

(***************************************************************************)
(* _type_of_value.  A result is the type, or the exception raised, with    *)
(* the warnings.warn calls made, the calls of _type_of_value made and the  *)
(* largest _depth reached.  The recursion is the code's; the results for   *)
(* the heap's objects at each depth are tabulated (RefTable) from the      *)
(* ceiling down, so that a list that holds itself twice is evaluated once  *)
(* per depth while its calls and warnings are counted in full.             *)
(***************************************************************************)
Ok(ty, warns, calls, depth) ==
    [st |-> "ok", ty |-> ty, warns |-> warns, calls |-> calls, depth |-> depth]

Raise(exc, warns, calls, depth) ==
    [st |-> "raise", exc |-> exc, warns |-> warns, calls |-> calls, depth |-> depth]

RECURSIVE TypeOfValueAt(_, _, _)
RECURSIVE TypesOfItems(_, _, _)

\* _type_of_value(x, _depth=d) for each x of items, left to right, until
\* one raises
TypesOfItems(items, d, table) ==
    IF items = << >>
    THEN [st |-> "ok", tys |-> << >>, warns |-> 0, calls |-> 0, depth |-> 0]
    ELSE LET h == TypeOfValueAt(Head(items), d, table)
         IN  IF h.st = "raise" THEN h
             ELSE LET r == TypesOfItems(Tail(items), d, table)
                  IN  IF r.st = "raise"
                      THEN Raise(r.exc, Plus(h.warns, r.warns), Plus(h.calls, r.calls),
                                 Max(h.depth, r.depth))
                      ELSE [st |-> "ok", tys |-> <<h.ty>> \o r.tys,
                            warns |-> Plus(h.warns, r.warns),
                            calls |-> Plus(h.calls, r.calls),
                            depth |-> Max(h.depth, r.depth)]

\* the single type of a set of types, else their union (lines 506-511,
\* 520-528)
OneOrUnion(tys) ==
    IF Cardinality(tys) = 1 THEN CHOOSE x \in tys : TRUE ELSE MakeUnion(tys)

\* the list branch (lines 504-511): Union[()] of an empty list is a
\* TypeError
ListType(obj, d, table) ==
    LET r == TypesOfItems(obj.items, d + 1, table)
    IN  IF r.st = "raise" THEN Raise(r.exc, r.warns, Plus(r.calls, 1), Max(d, r.depth))
        ELSE IF r.tys = << >> THEN Raise("TypeError", r.warns, Plus(r.calls, 1), d)
        ELSE Ok(Generic("list", "builtin", <<OneOrUnion(Range(r.tys))>>),
                r.warns, Plus(r.calls, 1), Max(d, r.depth))

\* the items the unpacking of zip(...) into two names draws from the
\* generator: it stops after the third
DrawnEntries(entries) ==
    IF Len(entries) > 3 THEN SubSeq(entries, 1, 3) ELSE entries

RECURSIVE KeysAndValues(_)
KeysAndValues(entries) ==
    IF entries = << >> THEN << >>
    ELSE <<Head(entries)[1], Head(entries)[2]>> \o KeysAndValues(Tail(entries))

\* the dict branch (lines 512-530): zip() of the one generator yields a
\* 1-tuple per entry, so the unpacking needs exactly two entries;
\* all_key_types[0] is the first entry's (key type, value type) pair and
\* all_value_types[0] the second entry's
DictType(obj, d, table) ==
    LET r == TypesOfItems(KeysAndValues(DrawnEntries(obj.entries)), d + 1, table)
    IN  IF r.st = "raise" THEN Raise(r.exc, r.warns, Plus(r.calls, 1), Max(d, r.depth))
        ELSE IF Len(obj.entries) # 2
        THEN Raise("ValueError", r.warns, Plus(r.calls, 1), Max(d, r.depth))
        ELSE LET key_types == {r.tys[1], r.tys[2]}
                 value_types == {r.tys[3], r.tys[4]}
             IN  Ok(Generic("dict", "builtin",
                            <<OneOrUnion(key_types), OneOrUnion(value_types)>>),
                    r.warns, Plus(r.calls, 1), Max(d, r.depth))

ContainerType(obj, d, table) ==
    IF obj.c = "list" THEN ListType(obj, d, table) ELSE DictType(obj, d, table)

\* lines 489-533, with the heap's objects looked up in the table
TypeOfValueAt(val, d, table) ==
    IF d > DepthLimit THEN Ok(AnyT, 1, 1, d)
    ELSE CASE val.v = "tuple" ->
                LET r == TypesOfItems(val.items, d + 1, table)
                IN  IF r.st = "raise"
                    THEN Raise(r.exc, r.warns, Plus(r.calls, 1), Max(d, r.depth))
                    ELSE Ok(Generic("tuple", "builtin", r.tys),
                            r.warns, Plus(r.calls, 1), Max(d, r.depth))
           [] val.v = "ref" -> table[d][val.id]
           [] OTHER -> Ok(ClassOf(val), 0, 1, d)

NoRows == [d \in {} |-> 0]

\* table[e][id], for depth <= e <= DepthLimit: _type_of_value of the heap
\* object id at _depth e
RECURSIVE RefTable(_, _)
RefTable(hp, depth) ==
    IF depth > DepthLimit \/ DOMAIN hp = {} THEN NoRows
    ELSE LET deeper == RefTable(hp, depth + 1)
             row == [id \in DOMAIN hp |-> ContainerType(hp[id], depth, deeper)]
         IN  IF depth \in DOMAIN deeper THEN deeper
             ELSE (depth :> (row @@ NoRows)) @@ deeper

_type_of_value(val, hp) == TypeOfValueAt(val, 0, RefTable(hp, 0))

(***************************************************************************)
(* _compare_types.  The code iterates a Python set (unmatched_rhs_subtypes)*)
(* and the arguments of a union, whose orders the type does not fix, so    *)
(* the operator yields the set of the results the call can return over all *)
(* those orders.                                                           *)
(***************************************************************************)
RECURSIVE _compare_types(_, _)
RECURSIVE ComparePairs(_, _)
RECURSIVE GreedyMatchNoRemove(_, _)
RECURSIVE GreedyMatch(_, _)

\* a loop over the pairs that stops after the first pair
CompareFirstPairOnly(args1, args2) ==
    IF args1 = << >> THEN {TRUE} ELSE _compare_types(Head(args1), Head(args2))

\* lines 454-457: the positional pairs in order, False at the first pair
\* that does not compare
ComparePairs(args1, args2) ==
    IF args1 = << >> THEN {TRUE}
    ELSE LET h == _compare_types(Head(args1), Head(args2))
         IN  (IF FALSE \in h THEN {FALSE} ELSE {})
             \cup (IF TRUE \in h THEN ComparePairs(Tail(args1), Tail(args2)) ELSE {})

\* a greedy loop that forgets to remove the member it matched and takes
\* a match for every left member as success
GreedyMatchNoRemove(todo, unmatched) ==
    IF todo = {} THEN {TRUE}
    ELSE UNION {
           (IF \A s2 \in unmatched : FALSE \in _compare_types(s1, s2)
              THEN {FALSE} ELSE {})
           \cup (IF \E s2 \in unmatched : TRUE \in _compare_types(s1, s2)
                   THEN GreedyMatchNoRemove(todo \ {s1}, unmatched) ELSE {})
           : s1 \in todo}

\* lines 465-474: each member of type1 still to do (in any order) removes
\* the first member of unmatched_rhs_subtypes (in any iteration order) it
\* compares equivalent to; no such member is False; at the end, whether
\* nothing is left unmatched
GreedyMatch(todo, unmatched) ==
    IF todo = {} THEN {unmatched = {}}
    ELSE UNION {
           (IF \A s2 \in unmatched : FALSE \in _compare_types(s1, s2)
              THEN {FALSE} ELSE {})
           \cup UNION {GreedyMatch(todo \ {s1}, unmatched \ {s2})
                       : s2 \in {x \in unmatched : TRUE \in _compare_types(s1, x)}}
           : s1 \in todo}

\* lines 445-476
_compare_types(ty1, ty2) ==
    IF ty1 = ty2 THEN {TRUE}
    ELSE IF _is_tuple(ty1) /\ _is_tuple(ty2)
    THEN IF Len(get_args(ty1)) # Len(get_args(ty2)) THEN {FALSE}
         ELSE ComparePairs(get_args(ty1), get_args(ty2))
    ELSE IF _is_union(ty1) /\ _is_union(ty2)
    THEN IF Cardinality(ty1.members) # Cardinality(ty2.members) THEN {FALSE}
         ELSE GreedyMatch(ty1.members, ty2.members)
    ELSE {FALSE}

(***************************************************************************)
(* click parameters, as deduce_type_from_parameter reads them              *)
(***************************************************************************)
\* a type as written in an annotation: the type and, for a union, its
\* arguments in the order written
Spelled(ty, args) == [ty |-> ty, args |-> args]

NoAnnotation == Spelled(Absent, << >>)

\* a click.ParamType instance: its class; the type its get_type_annotation
\* gives (Absent: it has none); where its convert is defined and what that
\* declares to return; a Choice's choices; a Tuple's types; a Path's
\* path_type
ParamType(cls, hook, convert, choices, types, path_type) ==
    [cls |-> cls, hook |-> hook, convert |-> convert, choices |-> choices,
     types |-> types, path_type |-> path_type]

ClickConvert == [in_click |-> TRUE, returns |-> Absent]

CustomConvert(returns) == [in_click |-> FALSE, returns |-> returns]

NoPathType == [kind |-> "none", ty |-> Absent]

\* line 50-60
_CLICK_STATIC_TYPE_MAP ==
    [StringParamType |-> StrT, BoolParamType |-> BoolT, IntParamType |-> IntT,
     IntRange |-> IntT, FloatParamType |-> FloatT, FloatRange |-> FloatT,
     DateTime |-> Cls("datetime"), UUIDParameterType |-> Cls("UUID"),
     File |-> Cls("TextIO")]

Returns(ty) == [st |-> "ok", ty |-> ty]

Raises(exc) == [st |-> "raise", exc |-> exc]

\* lines 68-74
_make_tuple_type(typeargs) ==
    IF typeargs # << >> /\ typeargs[Len(typeargs)] = EllipsisT
    THEN IF Len(typeargs) # 2 THEN Raises("ValueError")
         ELSE Returns(Generic("tuple", "builtin", <<typeargs[1], EllipsisT>>))
    ELSE Returns(Generic("tuple", "builtin", typeargs))

RECURSIVE _type_from_param_type(_)
RECURSIVE TypesFromParamTypes(_)

\* line 132: the element types in position, until one raises
TypesFromParamTypes(types) ==
    IF types = << >> THEN [st |-> "ok", tys |-> << >>]
    ELSE LET h == _type_from_param_type(Head(types))
         IN  IF h.st = "raise" THEN h
             ELSE LET r == TypesFromParamTypes(Tail(types))
                  IN  IF r.st = "raise" THEN r
                      ELSE [st |-> "ok", tys |-> <<h.ty>> \o r.tys]

\* a resolver that takes str for a Path it cannot resolve
PathFallsBackToStr(param_type) ==
    IF param_type.hook # Absent THEN Returns(param_type.hook)
    ELSE IF ~param_type.convert.in_click /\ param_type.convert.returns # Absent
    THEN Returns(param_type.convert.returns)
    ELSE IF param_type.cls \in DOMAIN _CLICK_STATIC_TYPE_MAP
    THEN Returns(_CLICK_STATIC_TYPE_MAP[param_type.cls])
    ELSE IF param_type.cls = "Choice"
    THEN Returns(LiteralOf(Range(param_type.choices)))
    ELSE IF param_type.cls = "Tuple"
    THEN LET r == TypesFromParamTypes(param_type.types)
         IN  IF r.st = "raise" THEN r ELSE _make_tuple_type(r.tys)
    ELSE IF param_type.cls = "Path"
    THEN IF param_type.path_type.kind \in {"type", "callable"}
              /\ param_type.path_type.ty # Absent
         THEN Returns(param_type.path_type.ty)
         ELSE Returns(StrT)
    ELSE Raises("NotImplementedError")

\* lines 97-160
_type_from_param_type(param_type) ==
    IF param_type.hook # Absent THEN Returns(param_type.hook)
    ELSE IF ~param_type.convert.in_click /\ param_type.convert.returns # Absent
    THEN Returns(param_type.convert.returns)
    ELSE IF param_type.cls \in DOMAIN _CLICK_STATIC_TYPE_MAP
    THEN Returns(_CLICK_STATIC_TYPE_MAP[param_type.cls])
    ELSE IF param_type.cls = "Choice"
    THEN Returns(LiteralOf(Range(param_type.choices)))
    ELSE IF param_type.cls = "Tuple"
    THEN LET r == TypesFromParamTypes(param_type.types)
         IN  IF r.st = "raise" THEN r ELSE _make_tuple_type(r.tys)
    ELSE IF param_type.cls = "Path"
    THEN CASE param_type.path_type.kind = "none" -> Returns(StrT)
           [] param_type.path_type.kind = "type" -> Returns(param_type.path_type.ty)
           [] param_type.path_type.kind = "callable" ->
                IF param_type.path_type.ty = Absent THEN Raises("TypeError")
                ELSE Returns(param_type.path_type.ty)
           [] OTHER -> Raises("TypeError")
    ELSE Raises("NotImplementedError")

\* a click.Parameter: callback.returns is the callback's declared return
\* type; annotation is what the AnnotatedParameter protocol shows
Parameter(name, kind, type, multiple, nargs, required, default, expose_value, callback, annotation) ==
    [name |-> name, kind |-> kind, type |-> type, multiple |-> multiple,
     nargs |-> nargs, required |-> required, default |-> default,
     expose_value |-> expose_value, callback |-> callback,
     annotation |-> annotation]

NoCallback == [set |-> FALSE, returns |-> NoAnnotation]

Callback(returns) == [set |-> TRUE, returns |-> returns]

\* a parameter that does not implement AnnotatedParameter
NotAnnotated == [implements |-> FALSE, has_explicit |-> FALSE, type_annotation |-> NoAnnotation]

\* an AnnotatedParameter (lines 29-36): has_explicit_annotation() and the
\* property type_annotation, which is taken to return as the protocol
\* declares.  isinstance() at line 225 reads the property on Python up to
\* 3.11, so one that raises when unset (the example option without
\* type_annotation) raises there; from Python 3.12 it is not evaluated.
AnnotatedWith(has, ann) == [implements |-> TRUE, has_explicit |-> has, type_annotation |-> ann]

\* lines 163-170
_is_multi_param(p) ==
    \/ p.kind = "option" /\ p.multiple
    \/ p.kind = "argument" /\ p.nargs # 1

\* lines 173-179
_multi_param_length(p) ==
    IF p.kind = "option" THEN -1
    ELSE IF p.kind = "argument" THEN p.nargs
    ELSE -1

\* a classifier that forgets that a multiple option defaults to ()
OptionDefaultsToNoneIgnoringMultiple(o) ==
    IF o.default # NoneV THEN FALSE
    ELSE IF o.required THEN FALSE
    ELSE TRUE

\* lines 182-198
_option_defaults_to_none(o) ==
    IF o.default # NoneV THEN FALSE
    ELSE IF o.multiple THEN FALSE
    ELSE IF o.required THEN FALSE
    ELSE TRUE

\* a classifier that forgets that an argument of nargs=-1 defaults to ()
ArgumentDefaultsToNoneIgnoringNargs(a) ==
    IF a.required THEN FALSE
    ELSE IF a.default # NoneV THEN FALSE
    ELSE TRUE

\* lines 201-217
_argument_defaults_to_none(a) ==
    IF a.required THEN FALSE
    ELSE IF a.default # NoneV THEN FALSE
    ELSE IF a.nargs = -1 THEN FALSE
    ELSE TRUE

(***************************************************************************)
(* deduce_type_from_parameter                                              *)
(***************************************************************************)
IsNumber(val) == val.v \in {"int", "bool"}

NumberOf(val) == IF val.v = "int" THEN val.i ELSE IF val.b THEN 1 ELSE 0

\* Python's == on the scalar values: True == 1 and False == 0
PyValEq(a, b) ==
    \/ a = b
    \/ IsNumber(a) /\ IsNumber(b) /\ NumberOf(a) = NumberOf(b)

\* tuple types of the form tuple[T, ...] (lines 564-568)
IsUnboundedTuple(ty) ==
    /\ _is_tuple(ty)
    /\ Len(ty.elems) = 2
    /\ ty.elems[2] = EllipsisT

\* lines 570-589, for one tuple[T, ...] of possible_types: the results the
\* three checks can give (TRUE: the function returns True here)
TupleDefaultCovered(val, multi_use_type) ==
    IF /\ IsLiteral(multi_use_type)
       /\ \A j \in DOMAIN val.items :
             \E w \in multi_use_type.vals : PyValEq(val.items[j], w)
    THEN {TRUE}
    ELSE LET member_types == {ClassOf(val.items[j]) : j \in DOMAIN val.items}
         IN  IF _is_union(multi_use_type)
             THEN {member_types \subseteq multi_use_type.members}
             ELSE IF Cardinality(member_types) = 1
             THEN _compare_types(CHOOSE m \in member_types : TRUE, multi_use_type)
             ELSE {FALSE}

\* a check that only looks for the very type of the default
OnlyTheTypeItself(val, value_type, possible_types) ==
    {value_type \in possible_types}

\* lines 536-591: the results the call can return
_type_or_literal_is_included(val, value_type, possible_types) ==
    IF value_type \in possible_types THEN {TRUE}
    ELSE IF value_type = BoolT /\ IntT \in possible_types THEN {TRUE}
    ELSE IF /\ val.v \in {"int", "str", "bool", "enum"}
            /\ \E possible \in possible_types :
                  IsLiteral(possible) /\ \E w \in possible.vals : PyValEq(val, w)
    THEN {TRUE}
    ELSE IF /\ val.v = "tuple"
            /\ \E x \in possible_types : _is_tuple(x)
            /\ Range(get_args(value_type)) \subseteq {IntT, StrT, BoolT}
    THEN LET unbounded == {x \in possible_types : IsUnboundedTuple(x)}
         IN  (IF \E x \in unbounded : TRUE \in TupleDefaultCovered(val, x.elems[1])
                THEN {TRUE} ELSE {})
             \cup (IF \A x \in unbounded : FALSE \in TupleDefaultCovered(val, x.elems[1])
                     THEN {FALSE} ELSE {})
    ELSE {FALSE}

\* what a call of deduce_type_from_parameter gives: the type with its
\* arguments in order (a union's), or the exception; warns counts the
\* warnings emitted; via is the branch that decided (explicit, callback,
\* candidates); seeded is possible_types after lines 243-250
Deduced(ty, args, warns, via, seeded) ==
    [st |-> "ok", ty |-> ty, args |-> args, warns |-> warns, via |-> via,
     seeded |-> seeded]

DeduceRaised(exc, warns, via, seeded) ==
    [st |-> "raise", exc |-> exc, warns |-> warns, via |-> via, seeded |-> seeded]

\* lines 243-250
SeedNone(p) ==
    IF p.kind = "option"
    THEN IF _option_defaults_to_none(p) THEN {NonePlaceholder} ELSE {}
    ELSE IF p.kind = "argument"
    THEN IF _argument_defaults_to_none(p) THEN {NonePlaceholder} ELSE {}
    ELSE {}

\* n copies of ty
Repeat(ty, n) == [j \in 1..n |-> ty]

\* lines 254-271: the candidates the conversion type adds, or the
\* exception of its resolution
TypeCandidates(p) ==
    IF _is_multi_param(p)
    THEN LET num_params == _multi_param_length(p)
         IN  IF num_params = -1
             THEN LET r == _type_from_param_type(p.type)
                  IN  IF r.st = "raise" THEN r
                      ELSE LET tt == _make_tuple_type(<<r.ty, EllipsisT>>)
                           IN  IF tt.st = "raise" THEN tt
                               ELSE [st |-> "ok", tys |-> {tt.ty}]
             ELSE IF num_params <= 0
             THEN [st |-> "ok", tys |-> {_make_tuple_type(<< >>).ty}]
             ELSE LET r == _type_from_param_type(p.type)
                  IN  IF r.st = "raise" THEN r
                      ELSE LET tt == _make_tuple_type(Repeat(r.ty, num_params))
                           IN  IF tt.st = "raise" THEN tt
                               ELSE [st |-> "ok", tys |-> {tt.ty}]
    ELSE LET r == _type_from_param_type(p.type)
         IN  IF r.st = "raise" THEN r
             ELSE IF _is_union(r.ty) THEN [st |-> "ok", tys |-> r.ty.members]
             ELSE [st |-> "ok", tys |-> {r.ty}]

\* a finish that leaves the raw None in the set
KeepNonePlaceholder(possible_types) == possible_types

\* lines 281-286
NoneToNoneType(possible_types) ==
    IF NonePlaceholder \in possible_types
    THEN (possible_types \ {NonePlaceholder}) \cup {_NoneType}
    ELSE possible_types

\* a finish that wraps a single candidate in a union as well
FinishAlwaysUnion(possible_types, warns, seeded) ==
    IF possible_types = {}
    THEN {DeduceRaised("ValueError", warns, "candidates", seeded)}
    ELSE {Deduced(UnionOf(possible_types), o, warns, "candidates", seeded)
          : o \in Orders(possible_types)}

\* lines 288-299: the value returned for the final possible_types; a union
\* is built from the set in its iteration order
Finish(possible_types, warns, seeded) ==
    IF possible_types = {}
    THEN {DeduceRaised("ValueError", warns, "candidates", seeded)}
    ELSE IF Cardinality(possible_types) = 1
    THEN {Deduced(CHOOSE x \in possible_types : TRUE, << >>, warns, "candidates", seeded)}
    ELSE {Deduced(MakeUnion(possible_types), o, warns, "candidates", seeded)
          : o \in Orders(FlattenMembers(possible_types))}

\* lines 233-299
DeduceFromCandidates(p, hp) ==
    LET seeded == SeedNone(p)
        cand == TypeCandidates(p)
    IN  IF cand.st = "raise" THEN {DeduceRaised(cand.exc, 0, "candidates", seeded)}
        ELSE LET possible_types == seeded \cup cand.tys
             IN  IF p.default = NoneV
                 THEN Finish(NoneToNoneType(possible_types), 0, seeded)
                 ELSE LET vt == _type_of_value(p.default, hp)
                      IN  IF vt.st = "raise"
                          THEN {DeduceRaised(vt.exc, vt.warns, "candidates", seeded)}
                          ELSE UNION {
                                 Finish(NoneToNoneType(
                                          IF inc THEN possible_types
                                          ELSE possible_types \cup {vt.ty}),
                                        vt.warns, seeded)
                                 : inc \in _type_or_literal_is_included(
                                              p.default, vt.ty, possible_types)}

\* a deduction that asks the callback before the explicit annotation
CallbackBeforeAnnotation(p, hp) ==
    IF p.callback.set /\ p.callback.returns.ty # Absent
    THEN {Deduced(p.callback.returns.ty, p.callback.returns.args, 0, "callback", {})}
    ELSE IF p.annotation.implements /\ p.annotation.has_explicit
    THEN {Deduced(p.annotation.type_annotation.ty, p.annotation.type_annotation.args,
                  0, "explicit", {})}
    ELSE DeduceFromCandidates(p, hp)

\* lines 220-299: the results the call can return
deduce_type_from_parameter(p, hp) ==
    IF p.annotation.implements /\ p.annotation.has_explicit
    THEN {Deduced(p.annotation.type_annotation.ty, p.annotation.type_annotation.args,
                  0, "explicit", {})}
    ELSE IF p.callback.set /\ p.callback.returns.ty # Absent
    THEN {Deduced(p.callback.returns.ty, p.callback.returns.args, 0, "callback", {})}
    ELSE DeduceFromCandidates(p, hp)

(***************************************************************************)
(* _TypeNameMap.get_type_name and the messages of check_param_annotations. *)
(* A rendered name is a string; str(typ) of a type that is neither a union *)
(* nor a class is left as the mark {} in the string, with the type beside  *)
(* it in reprs.                                                            *)
(***************************************************************************)
Name(str) == [str |-> str, reprs |-> << >>]

RECURSIVE JoinNames(_)
\* " | ".join(names)
JoinNames(names) ==
    IF Len(names) = 1 THEN names[1]
    ELSE LET rest == JoinNames(Tail(names))
         IN  [str |-> names[1].str \o " | " \o rest.str,
              reprs |-> names[1].reprs \o rest.reprs]

\* lines 322-334 for a type that is not a union
MemberName(known_type_names, ty) ==
    IF ty \in DOMAIN known_type_names THEN Name(known_type_names[ty])
    ELSE IF ty.k = "cls"
    THEN IF ty = _NoneType THEN Name("None") ELSE Name(ty.n)
    ELSE [str |-> "{}", reprs |-> <<ty>>]

\* a naming that joins the members of a union before it asks the registry
JoinedBeforeRegistry(known_type_names, typ) ==
    IF _is_union(typ.ty)
    THEN JoinNames([j \in DOMAIN typ.args |-> MemberName(known_type_names, typ.args[j])])
    ELSE MemberName(known_type_names, typ.ty)

\* lines 322-334: typ is a type with its arguments in order
get_type_name(known_type_names, typ) ==
    IF typ.ty \in DOMAIN known_type_names THEN Name(known_type_names[typ.ty])
    ELSE IF _is_union(typ.ty)
    THEN JoinNames([j \in DOMAIN typ.args |-> MemberName(known_type_names, typ.args[j])])
    ELSE MemberName(known_type_names, typ.ty)

\* a record that does not name the parameter
MissingMessageUnnamed(name) ==
    Name("an expected parameter was not in type hints")

\* line 422
MissingMessage(name) ==
    Name("expected parameter '" \o name \o "' was not in type hints")

\* lines 433-435
MismatchMessage(name, annotated, expected) ==
    [str |-> "parameter '" \o name \o "' has unexpected parameter type '"
             \o annotated.str \o "' rather than '" \o expected.str \o "'",
     reprs |-> annotated.reprs \o expected.reprs]

RECURSIVE JoinLines(_)
\* "\n  ".join(errors)
JoinLines(msgs) ==
    IF Len(msgs) = 1 THEN msgs[1]
    ELSE LET rest == JoinLines(Tail(msgs))
         IN  [str |-> msgs[1].str \o "\n  " \o rest.str,
              reprs |-> msgs[1].reprs \o rest.reprs]

\* an error that keeps the first record only
FirstErrorOnly(errs) ==
    [kind |-> "BadAnnotationError", errors |-> <<errs[1]>>, message |-> errs[1]]

\* lines 39-45
BadAnnotationError(errs) ==
    [kind |-> "BadAnnotationError", errors |-> errs,
     message |-> IF Len(errs) = 1 THEN errs[1]
                 ELSE LET joined == JoinLines(errs)
                      IN  [str |-> "\n  " \o joined.str, reprs |-> joined.reprs]]

\* another exception leaving check_param_annotations
Propagated(exc) == [kind |-> exc, errors |-> << >>, message |-> Name("")]

ReturnedTrue == [kind |-> "True", errors |-> << >>, message |-> Name("")]

(***************************************************************************)
(* The inputs of the calls                                                 *)
(***************************************************************************)
OptionalOf(ty) == UnionOf({ty, _NoneType})

Builtin(origin, elems) == Generic(origin, "builtin", elems)

Simple(cls) == ParamType(cls, Absent, ClickConvert, << >>, << >>, NoPathType)

StrParam == Simple("StringParamType")

IntParam == Simple("IntParamType")

BoolParam == Simple("BoolParamType")

ChoiceABC ==
    ParamType("Choice", Absent, ClickConvert, <<StrV("a"), StrV("b"), StrV("c")>>,
              << >>, NoPathType)

TupleStrInt == ParamType("Tuple", Absent, ClickConvert, << >>, <<StrParam, IntParam>>, NoPathType)

PathOf(kind, ty) ==
    ParamType("Path", Absent, ClickConvert, << >>, << >>, [kind |-> kind, ty |-> ty])

\* a click.ParamType subclass with its own convert and no hook
Custom(returns) ==
    ParamType("ParamType", Absent, CustomConvert(returns), << >>, << >>, NoPathType)

\* a ParamType with get_type_annotation
Hooked(ty) == ParamType("ParamType", ty, CustomConvert(Absent), << >>, << >>, NoPathType)

\* a Choice subclass whose convert declares str
ChoiceWithConvert ==
    ParamType("Choice", Absent, CustomConvert(StrT), <<StrV("a"), StrV("b"), StrV("c")>>,
              << >>, NoPathType)

ParamTypes ==
    {StrParam, IntParam, BoolParam, Simple("IntRange"), Simple("File"), ChoiceABC, TupleStrInt,
     PathOf("none", Absent), PathOf("type", Cls("Path")), PathOf("callable", BytesT),
     PathOf("callable", OptionalOf(StrT)), PathOf("callable", Absent),
     PathOf("other", Absent),
     Custom(OptionalOf(IntT)), Custom(Builtin("tuple", <<StrT, StrT>>)),
     Custom(_NoneType), Custom(Absent), Hooked(UnionOf({StrT, BytesT})),
     ChoiceWithConvert, Simple("UnprocessedParamType")}

ScalarDefaults ==
    {StrV("a"), StrV("d"), IntV(1), BoolV(FALSE), BoolV(TRUE), ObjV("MySentinel")}

TupleDefaults ==
    {TupleV(<< >>), TupleV(<<StrV("a")>>), TupleV(<<StrV("a"), StrV("d")>>),
     TupleV(<<IntV(1), StrV("2")>>), TupleV(<<StrV("x"), IntV(1)>>)}

PairDefaults == {d \in TupleDefaults : Len(d.items) = 2}

Callbacks ==
    {NoCallback, Callback(NoAnnotation), Callback(Spelled(IntT, << >>)),
     Callback(Spelled(OptionalOf(StrT), <<StrT, _NoneType>>))}

Annotations ==
    {NotAnnotated, AnnotatedWith(FALSE, NoAnnotation),
     AnnotatedWith(TRUE, Spelled(OptionalOf(StrT), <<StrT, _NoneType>>)),
     AnnotatedWith(TRUE, Spelled(StrT, << >>))}

\* click.Option(["--foo"], ...): a multiple option's default is a sequence
Options ==
    {Parameter("foo", "option", ty, multiple, 1, required, default, TRUE, cb, ann)
       : <<ty, multiple, required, default, cb, ann>> \in
           {x \in ParamTypes \X BOOLEAN \X BOOLEAN
                    \X ({NoneV} \cup ScalarDefaults \cup TupleDefaults)
                    \X Callbacks \X Annotations
              : x[2] => x[4] \in {NoneV} \cup TupleDefaults}}

\* click.Argument(["FOO"], ...): a composite type fixes nargs to its arity, a
\* default of nargs=-1 is not supported, one of nargs=2 has two items
Arguments ==
    {Parameter("foo", "argument", ty, FALSE, nargs, required, default, TRUE, cb, ann)
       : <<ty, nargs, required, default, cb, ann>> \in
           {x \in ParamTypes \X {1, 2, 3, -1} \X BOOLEAN
                    \X ({NoneV} \cup ScalarDefaults \cup TupleDefaults)
                    \X Callbacks \X Annotations
              : /\ (x[1].cls = "Tuple" => x[2] = Len(x[1].types))
                /\ (x[2] = -1 => x[4] = NoneV)
                /\ (x[2] = 2 => x[4] \in {NoneV} \cup PairDefaults)
                /\ (x[2] = 3 => x[4] = NoneV)
                /\ x[4] \in TupleDefaults => x[2] = 2}}

\* what a list of a default can hold
ListItems == {RefV(1), RefV(2), IntV(1), StrV("2"), NoneV}

RECURSIVE SeqsUpTo(_, _)
\* the sequences over S of length at most n
SeqsUpTo(S, n) ==
    IF n = 0 THEN {<< >>}
    ELSE LET shorter == SeqsUpTo(S, n - 1)
         IN  shorter \cup {Append(q, x) : q \in {r \in shorter : Len(r) = n - 1}, x \in S}

\* the heaps of the list defaults: object 1 is the default, object 2 a
\* list it may hold
ListHeaps ==
    {(1 :> ListObj(items)) @@ (2 :> ListObj(other))
       : items \in SeqsUpTo(ListItems, MaxListLen),
         other \in {<<IntV(1)>>, <<RefV(1)>>, << >>}}

DictEntries ==
    {<< >>,
     << <<StrV("x"), IntV(1)>> >>,
     << <<StrV("x"), IntV(1)>>, <<IntV(2), TupleV(<<ObjV("object")>>)>> >>,
     << <<StrV("x"), IntV(1)>>, <<StrV("y"), IntV(2)>> >>,
     << <<StrV("x"), IntV(1)>>, <<StrV("y"), IntV(2)>>, <<StrV("z"), StrV("w")>> >>,
     << <<StrV("x"), RefV(2)>>, <<StrV("y"), IntV(2)>> >>}

\* the heaps of the dict defaults: object 1 is the default
DictHeaps ==
    {(1 :> DictObj(entries)) @@ (2 :> ListObj(other))
       : entries \in DictEntries, other \in {<<IntV(1)>>, << >>}}

Heaps == ListHeaps \cup DictHeaps

\* click.Option(["--foo"], type=str, default=<a list or a dict>)
ContainerOption ==
    Parameter("foo", "option", StrParam, FALSE, 1, FALSE, RefV(1), TRUE, NoCallback,
              NotAnnotated)

InlineValues == {NoneV} \cup ScalarDefaults \cup TupleDefaults

\* the types handed to _compare_types: classes, tuples in both spellings,
\* unions of them, tuples of unions and of tuples
TupleSpellings == {"typing", "builtin"}

Scalars == {StrT, IntT, _NoneType}

PlainTuples ==
    {Generic("tuple", sp, elems)
       : sp \in TupleSpellings, elems \in {<<StrT, StrT>>, <<StrT, EllipsisT>>}}

Atoms == Scalars \cup PlainTuples

Unions ==
    {UnionOf(m) : m \in {x \in SUBSET Atoms : Cardinality(x) \in 2..MaxUnion}}

NestedTuples ==
    {Generic("tuple", sp, <<inner>>)
       : sp \in TupleSpellings,
         inner \in {Generic("tuple", sp2, <<StrT, StrT>>) : sp2 \in TupleSpellings}
                   \cup {UnionOf({StrT, IntT}), UnionOf({StrT, _NoneType})}}

\* tuples of other arities and element orders
OrderedTuples ==
    {Generic("tuple", sp, elems)
       : sp \in TupleSpellings,
         elems \in {<<StrT>>, <<StrT, IntT>>, <<IntT, StrT>>, <<StrT, StrT, StrT>>}}

ComparedTypes == Atoms \cup Unions \cup NestedTuples \cup OrderedTuples

\* the parameters of the checked commands, before they are named
CheckedParams ==
    {Parameter("", "option", StrParam, FALSE, 1, FALSE, NoneV, TRUE, NoCallback, NotAnnotated),
     Parameter("", "option", IntParam, FALSE, 1, FALSE, NoneV, TRUE, NoCallback, NotAnnotated),
     Parameter("", "option", IntParam, FALSE, 1, TRUE, NoneV, TRUE, NoCallback, NotAnnotated),
     Parameter("", "option", StrParam, FALSE, 1, FALSE, NoneV, FALSE, NoCallback, NotAnnotated),
     Parameter("", "option", PathOf("other", Absent), FALSE, 1, FALSE, NoneV, TRUE,
               NoCallback, NotAnnotated)}

ParamNames == <<"foo", "bar", "baz", "qux">>

\* the annotations of a handler parameter (Absent: it is not annotated or
\* not a parameter of the handler)
Hints ==
    {NoAnnotation, Spelled(StrT, << >>),
     Spelled(OptionalOf(StrT), <<StrT, _NoneType>>),
     Spelled(OptionalOf(IntT), <<IntT, _NoneType>>)}

NoNames == [ty \in {} |-> ""]

NoOverrides == [n \in {} |-> NoAnnotation]

\* known_type_names, overrides and whether the handler takes a parameter
\* (username) that is no CLI parameter
CallVariants ==
    {[known_type_names |-> NoNames, overrides |-> NoOverrides, extra |-> FALSE],
     [known_type_names |-> (OptionalOf(StrT) :> "MaybeStr"), overrides |-> NoOverrides,
      extra |-> TRUE],
     [known_type_names |-> NoNames, overrides |-> ("foo" :> Spelled(StrT, << >>)),
      extra |-> TRUE]}

\* t.get_type_hints(f.callback): the annotated parameters of the handler
HintsOf(given, extra) ==
    LET names == {ParamNames[j] : j \in {i \in DOMAIN given : given[i] # NoAnnotation}}
        index(n) == CHOOSE j \in DOMAIN given : ParamNames[j] = n
    IN  [n \in names \cup (IF extra THEN {"username"} ELSE {}) |->
           IF n = "username" THEN Spelled(StrT, << >>) ELSE given[index(n)]]

\* a click.Command with its handler's hints, and the other arguments of
\* the call
Commands ==
    {[is_command |-> TRUE,
      params |-> [j \in DOMAIN ps |-> [ps[j] EXCEPT !.name = ParamNames[j]]],
      hints |-> HintsOf([j \in DOMAIN ps |-> hs[j]], v.extra),
      known_type_names |-> v.known_type_names,
      overrides |-> v.overrides]
       : <<ps, hs, v>> \in
           {x \in SeqsUpTo(CheckedParams, MaxParams) \X SeqsUpTo(Hints, MaxParams)
                    \X CallVariants : Len(x[1]) = Len(x[2])}}

\* something that is no click.Command
NotACommand ==
    [is_command |-> FALSE, params |-> << >>, hints |-> NoOverrides,
     known_type_names |-> NoNames, overrides |-> NoOverrides]

(***************************************************************************)
(* _TypeNameMap: the registry of known_type_names.  A type as the caller   *)
(* writes it is a union in the form typing.Union[...] / Optional[...]      *)
(* ("typing") or X | Y ("pep604", a types.UnionType), with its arguments   *)
(* in order, or any other type ("plain") as its one argument.              *)
(***************************************************************************)
Written(form, args) == [form |-> form, args |-> args]

\* the type object written: == and hash of a union, in both forms, are
\* those of the set of its arguments
TypeWritten(w) ==
    IF w.form = "plain" THEN w.args[1] ELSE MakeUnion(Range(w.args))

\* lines 306-309
_normkey(key) ==
    IF key.form = "pep604" THEN Written("typing", key.args) ELSE key

RECURSIVE _TypeNameMap(_)
\* lines 301-313: self._data after __init__ has set the items of data in
\* order, each under its normalized key
_TypeNameMap(data) ==
    IF data = << >> THEN NoNames
    ELSE (TypeWritten(_normkey(data[Len(data)][1])) :> data[Len(data)][2])
           @@ _TypeNameMap(SubSeq(data, 1, Len(data) - 1))

\* _TypeNameMap(data).get_type_name(w): membership and lookup under the
\* normalized key, the members from t.get_args(w)
NameWritten(data, w) ==
    get_type_name(_TypeNameMap(data),
                  Spelled(TypeWritten(_normkey(w)),
                          IF w.form = "plain" THEN << >> ELSE w.args))

\* the keys of known_type_names
RegistryKeys ==
    {Written(form, args)
       : form \in {"typing", "pep604"}, args \in {<<StrT, _NoneType>>, <<_NoneType, StrT>>}}
    \cup {Written("plain", <<IntT>>), Written("plain", <<Builtin("tuple", <<StrT, StrT>>)>>)}

RegistryNames == {"MaybeStr", "Alias"}

\* known_type_names: a dict, so no two of its keys are equal
Registries ==
    {data \in SeqsUpTo(RegistryKeys \X RegistryNames, MaxRegistry)
       : \A i, j \in DOMAIN data :
            TypeWritten(data[i][1]) = TypeWritten(data[j][1]) => i = j}

\* the types named
WrittenTypes ==
    RegistryKeys
    \cup {Written(form, args)
            : form \in {"typing", "pep604"},
              args \in {<<StrT, IntT, _NoneType>>, <<IntT, _NoneType>>, <<_NoneType, IntT>>,
                        <<IntT, Builtin("tuple", <<StrT, EllipsisT>>)>>}}
    \cup {Written("plain", <<ty>>)
            : ty \in {StrT, _NoneType, Generic("tuple", "typing", <<StrT, StrT>>),
                      LiteralOf({StrV("a"), StrV("b")})}}

(***************************************************************************)
(* The state machine: one call of the library per behaviour                *)
(***************************************************************************)
Unset == [k |-> "unset"]

Init ==
    /\ pc = "start"
    /\ param = Unset
    /\ heap = EmptyHeap
    /\ deduced = Unset
    /\ type1 = Unset
    /\ type2 = Unset
    /\ equivalent = FALSE
    /\ value = Unset
    /\ inferred = Unset
    /\ command = Unset
    /\ idx = 0
    /\ errors = << >>
    /\ outcome = Unset
    /\ registry = << >>
    /\ named_type = Unset
    /\ type_name = Unset

\* deduce_type_from_parameter(p), p's list or dict default in the heap hp
Deduce ==
    /\ pc = "start"
    /\ \E pair \in ((Options \cup Arguments) \X {EmptyHeap})
                    \cup ({ContainerOption} \X Heaps) :
          /\ param' = pair[1]
          /\ heap' = pair[2]
          /\ \E d \in deduce_type_from_parameter(pair[1], pair[2]) : deduced' = d
    /\ pc' = "deduced"
    /\ UNCHANGED <<type1, type2, equivalent, value, inferred, command, idx, errors, outcome>>
    /\ UNCHANGED naming

\* _compare_types(ty1, ty2)
Compare ==
    /\ pc = "start"
    /\ \E ty1 \in ComparedTypes, ty2 \in ComparedTypes :
          /\ type1' = ty1
          /\ type2' = ty2
          /\ \E b \in _compare_types(ty1, ty2) : equivalent' = b
    /\ pc' = "compared"
    /\ UNCHANGED <<param, heap, deduced, value, inferred, command, idx, errors, outcome>>
    /\ UNCHANGED naming

\* _type_of_value(val)
Infer ==
    /\ pc = "start"
    /\ \E pair \in (InlineValues \X {EmptyHeap}) \cup ({RefV(1)} \X Heaps) :
          /\ value' = pair[1]
          /\ heap' = pair[2]
          /\ inferred' = _type_of_value(pair[1], pair[2])
    /\ pc' = "inferred"
    /\ UNCHANGED <<param, deduced, type1, type2, equivalent, command, idx, errors, outcome>>
    /\ UNCHANGED naming

\* an expected type that is deduced whatever the overrides say
AlwaysDeduced(c, j) == deduce_type_from_parameter(c.params[j], EmptyHeap)

\* the expected types check_param_annotations may compare parameter j of
\* command c with (lines 425-428)
ExpectedOf(c, j) ==
    IF c.params[j].name \in DOMAIN c.overrides
    THEN {Deduced(c.overrides[c.params[j].name].ty, c.overrides[c.params[j].name].args,
                  0, "override", {})}
    ELSE deduce_type_from_parameter(c.params[j], EmptyHeap)

\* check_param_annotations(f, known_type_names=..., overrides=...), to the
\* head of its loop (lines 408-416)
CheckBegin ==
    /\ pc = "start"
    /\ \E c \in Commands \cup {NotACommand} :
          /\ command' = c
          /\ IF c.is_command
             THEN pc' = "checking" /\ outcome' = outcome
             ELSE pc' = "checked" /\ outcome' = Propagated("TypeError")
    /\ idx' = 1
    /\ errors' = << >>
    /\ UNCHANGED <<param, heap, deduced, type1, type2, equivalent, value, inferred>>
    /\ UNCHANGED naming

\* one pass of the loop over f.params (lines 417-437)
CheckParam ==
    /\ pc = "checking"
    /\ idx <= Len(command.params)
    /\ LET p == command.params[idx]
       IN  IF p.expose_value = FALSE
           THEN /\ errors' = errors
                /\ idx' = idx + 1
                /\ UNCHANGED <<pc, outcome>>
           ELSE IF p.name \notin DOMAIN command.hints
           THEN /\ errors' = Append(errors, MissingMessage(p.name))
                /\ idx' = idx + 1
                /\ UNCHANGED <<pc, outcome>>
           ELSE \E expected \in ExpectedOf(command, idx) :
                  IF expected.st = "raise"
                  THEN /\ pc' = "checked"
                       /\ outcome' = Propagated(expected.exc)
                       /\ UNCHANGED <<idx, errors>>
                  ELSE \E same \in _compare_types(command.hints[p.name].ty, expected.ty) :
                         /\ errors' =
                              IF same THEN errors
                              ELSE Append(errors,
                                     MismatchMessage(p.name,
                                       get_type_name(command.known_type_names,
                                                     command.hints[p.name]),
                                       get_type_name(command.known_type_names,
                                                     Spelled(expected.ty, expected.args))))
                         /\ idx' = idx + 1
                         /\ UNCHANGED <<pc, outcome>>
    /\ UNCHANGED <<param, heap, deduced, type1, type2, equivalent, value, inferred, command>>
    /\ UNCHANGED naming

\* after the loop (lines 439-442)
CheckEnd ==
    /\ pc = "checking"
    /\ idx > Len(command.params)
    /\ outcome' = IF errors # << >> THEN BadAnnotationError(errors) ELSE ReturnedTrue
    /\ pc' = "checked"
    /\ UNCHANGED <<param, heap, deduced, type1, type2, equivalent, value, inferred,
                   command, idx, errors>>
    /\ UNCHANGED naming

\* _TypeNameMap(known_type_names).get_type_name(typ)
NameType ==
    /\ pc = "start"
    /\ \E data \in Registries, w \in WrittenTypes :
          /\ registry' = data
          /\ named_type' = w
          /\ type_name' = NameWritten(data, w)
    /\ pc' = "named"
    /\ UNCHANGED <<param, heap, deduced, type1, type2, equivalent, value, inferred,
                   command, idx, errors, outcome>>

Next == Deduce \/ Compare \/ Infer \/ CheckBegin \/ CheckParam \/ CheckEnd \/ NameType

Spec == Init /\ [][Next]_vars

(***************************************************************************)
(* check_param_annotations: what a finished call reports                   *)
(***************************************************************************)
IsExposed(c, j) == c.params[j].expose_value # FALSE

IsMissing(c, j) == c.params[j].name \notin DOMAIN c.hints

\* deducing the expected type of parameter j is reached and raises
DeductionFails(c, j) ==
    /\ IsExposed(c, j)
    /\ ~IsMissing(c, j)
    /\ \E d \in ExpectedOf(c, j) : d.st = "raise"

DeductionSucceedsEverywhere(c) ==
    \A j \in DOMAIN c.params : ~DeductionFails(c, j)

\* parameter j is exposed and its hint is missing or not equivalent to
\* the expected type
IsFaulty(c, j) ==
    /\ IsExposed(c, j)
    /\ \/ IsMissing(c, j)
       \/ \E d \in ExpectedOf(c, j) :
             d.st = "ok" /\ TRUE \notin _compare_types(c.hints[c.params[j].name].ty, d.ty)

\* the indexes of the faulty parameters, in parameter order
FaultyParams(c) ==
    SelectSeq([j \in DOMAIN c.params |-> j], LAMBDA j : IsFaulty(c, j))

\* the records the call may hold for the faulty parameter j
RecordsFor(c, j) ==
    IF IsMissing(c, j)
    THEN {Name("expected parameter '" \o c.params[j].name \o "' was not in type hints")}
    ELSE {[str |-> "parameter '" \o c.params[j].name
                   \o "' has unexpected parameter type '"
                   \o get_type_name(c.known_type_names, c.hints[c.params[j].name]).str
                   \o "' rather than '"
                   \o get_type_name(c.known_type_names, Spelled(d.ty, d.args)).str \o "'",
           reprs |-> get_type_name(c.known_type_names, c.hints[c.params[j].name]).reprs
                     \o get_type_name(c.known_type_names, Spelled(d.ty, d.args)).reprs]
            : d \in {e \in ExpectedOf(c, j) : e.st = "ok"}}

CallFinished == pc = "checked" /\ command.is_command

\* C1: when deduction succeeds for every parameter of the command, the
\* finished call returned True or raised BadAnnotationError; the error
\* holds exactly one record for each exposed parameter that is missing
\* from the hints or whose hint is not equivalent to the expected type,
\* in parameter order (so none for a parameter with expose_value False
\* and none for a handler parameter that is no CLI parameter), and the
\* call returned True exactly when there is no such parameter.
C1_OneRecordPerFaultyParameter ==
    (CallFinished /\ DeductionSucceedsEverywhere(command)) =>
        LET faulty == FaultyParams(command)
        IN  /\ outcome.kind \in {"True", "BadAnnotationError"}
            /\ (outcome.kind = "True") = (faulty = << >>)
            /\ Len(outcome.errors) = Len(faulty)
            /\ \A k \in DOMAIN faulty :
                  outcome.errors[k] \in RecordsFor(command, faulty[k])

\* a call that raised with two records, one for a missing and one for a
\* mismatched parameter, of a handler that also takes a parameter that is
\* no CLI parameter
C1_Witness ==
    /\ CallFinished
    /\ DeductionSucceedsEverywhere(command)
    /\ outcome.kind = "BadAnnotationError"
    /\ Len(outcome.errors) = 2
    /\ "username" \in DOMAIN command.hints
    /\ \E j \in DOMAIN command.params : IsMissing(command, j)
    /\ \E j \in DOMAIN command.params : ~IsMissing(command, j)

\* a call that skipped a parameter with expose_value False whose hint is
\* missing, and returned True
C1_WitnessHidden ==
    /\ CallFinished
    /\ outcome.kind = "True"
    /\ \E j \in DOMAIN command.params :
          ~IsExposed(command, j) /\ IsMissing(command, j)

\* C2 as the specification states it: every finished call returned True
\* or raised the aggregate error, and no recorded mismatch is lost.
C2_NoPartialSuccess ==
    CallFinished =>
        \/ outcome.kind = "True" /\ errors = << >>
        \/ outcome.kind = "BadAnnotationError" /\ outcome.errors = errors

\* C2: a call on a command whose parameters all deduce returned True or
\* raised the aggregate error with every recorded mismatch; when deducing
\* a parameter raises, the call ends with that exception at the first such
\* parameter, and the mismatches recorded for earlier parameters are not
\* reported.
C2_AggregateUnlessDeductionRaises ==
    CallFinished =>
        IF DeductionSucceedsEverywhere(command)
        THEN \/ outcome.kind = "True" /\ errors = << >>
             \/ /\ outcome.kind = "BadAnnotationError"
                /\ outcome.errors = errors
                /\ errors # << >>
        ELSE /\ outcome.kind = "TypeError"
             /\ outcome.errors = << >>
             /\ DeductionFails(command, idx)
             /\ \A j \in 1..(idx - 1) : ~DeductionFails(command, j)

\* a call that recorded a mismatch for its first parameter and ended with
\* the TypeError of its second
C2_Witness ==
    /\ CallFinished
    /\ outcome.kind = "TypeError"
    /\ errors # << >>
    /\ idx = 2

(***************************************************************************)
(* _compare_types on unions                                                *)
(***************************************************************************)
\* the one-to-one maps of the members m1 onto the members m2
Bijections(m1, m2) ==
    {f \in [m1 -> m2] : \A a, b \in m1 : f[a] = f[b] => a = b}

\* some one-to-one map pairs every member with an equivalent one
PerfectMatching(m1, m2) ==
    /\ Cardinality(m1) = Cardinality(m2)
    /\ \E f \in Bijections(m1, m2) : \A a \in m1 : TRUE \in _compare_types(a, f[a])

BothUnions == pc = "compared" /\ _is_union(type1) /\ _is_union(type2)

\* C3: two unions compare as equivalent if and only if they have the same
\* number of members and their members have a perfect one-to-one matching
\* under recursive equivalence, whatever the order in which the greedy loop
\* of _compare_types visits the members; a union compares equivalent to
\* the same members written in another order.
C3_UnionsMatchPerfectly ==
    BothUnions =>
        /\ equivalent = PerfectMatching(type1.members, type2.members)
        /\ (type1.members = type2.members => equivalent)

\* two unions that are not equal as types and compare equivalent, through
\* tuples spelled differently
C3_Witness ==
    /\ BothUnions
    /\ type1 # type2
    /\ equivalent
    /\ Cardinality(type1.members) = 3

\* two unions of the same size where every member of the first has an
\* equivalent in the second, and that do not compare equivalent
C3_WitnessNoMatching ==
    /\ BothUnions
    /\ Cardinality(type1.members) = Cardinality(type2.members)
    /\ \A a \in type1.members : \E b \in type2.members : TRUE \in _compare_types(a, b)
    /\ ~equivalent

(***************************************************************************)
(* deduce_type_from_parameter: nullability, precedence and choices         *)
(***************************************************************************)
\* the none-type is a direct member of the union ty
HasNoneMember(ty) == _is_union(ty) /\ _NoneType \in ty.members

\* a multiple option or an argument of nargs=-1
IsUnboundedMulti(p) ==
    \/ p.kind = "option" /\ p.multiple
    \/ p.kind = "argument" /\ p.nargs = -1

\* a call that returned a type
Returned == pc = "deduced" /\ deduced.st = "ok"

\* a call that neither an explicit annotation nor an annotated callback
\* decided
ReachedCandidates == pc = "deduced" /\ deduced.via = "candidates"

\* C4 as the specification states it: the type returned for a multi-valued
\* parameter never has the none-type as a direct union member.
C4_MultiNeverNone ==
    (Returned /\ _is_multi_param(param)) => ~HasNoneMember(deduced.ty)

\* C4: for a multi-valued parameter whose type is deduced from the
\* candidates, the returned type of an unbounded one (a multiple option,
\* an argument of nargs=-1) never has the none-type as a direct union
\* member, and the returned type of an argument with a fixed count has it
\* exactly when the argument is not required and its default is None.
C4_OnlyUnboundedMultiNeverNone ==
    (Returned /\ ReachedCandidates /\ _is_multi_param(param)) =>
        IF IsUnboundedMulti(param)
        THEN ~HasNoneMember(deduced.ty) /\ deduced.ty # _NoneType
        ELSE HasNoneMember(deduced.ty) = (~param.required /\ param.default = NoneV)

\* an argument of nargs=3 that is not required, deduced as a tuple or None
C4_Witness ==
    /\ Returned
    /\ ReachedCandidates
    /\ param.kind = "argument"
    /\ param.nargs = 3
    /\ ~param.required
    /\ deduced.ty = OptionalOf(Builtin("tuple", <<StrT, StrT, StrT>>))

\* an argument of nargs=-1 that is not required, deduced as a tuple alone
C4_WitnessUnbounded ==
    /\ Returned
    /\ ReachedCandidates
    /\ param.kind = "argument"
    /\ param.nargs = -1
    /\ ~param.required
    /\ deduced.ty = Builtin("tuple", <<StrT, EllipsisT>>)

\* C5 as the specification states it: the type returned for a parameter
\* that is not multi-valued, not required and has no default includes the
\* none-type, also with an annotated callback or an explicit annotation.
C5_OptionalAlwaysNone ==
    (Returned /\ ~_is_multi_param(param) /\ ~param.required /\ param.default = NoneV) =>
        HasNoneMember(deduced.ty)

\* C5: for a parameter that is not multi-valued, not required and whose
\* default is None, with no explicit annotation and no annotated callback,
\* a returned type is a union with the none-type as a member, or the
\* none-type itself when the conversion type gives nothing else.
C5_OptionalFromCandidatesHasNone ==
    (Returned /\ ReachedCandidates /\ ~_is_multi_param(param) /\ ~param.required
       /\ param.default = NoneV) =>
        \/ HasNoneMember(deduced.ty)
        \/ deduced.ty = _NoneType /\ _type_from_param_type(param.type).ty = _NoneType

\* a string option without default, deduced as str or None
C5_Witness ==
    /\ Returned
    /\ ReachedCandidates
    /\ param.kind = "option"
    /\ param.type = StrParam
    /\ ~param.multiple
    /\ ~param.required
    /\ param.default = NoneV
    /\ deduced.ty = OptionalOf(StrT)

\* a parameter whose convert returns None, deduced as the none-type
C5_WitnessNoneAlone ==
    /\ Returned
    /\ ReachedCandidates
    /\ ~param.required
    /\ param.default = NoneV
    /\ deduced.ty = _NoneType

\* C6: when neither an explicit annotation nor an annotated callback
\* decides, None is seeded as a candidate exactly when none of the three
\* trapdoors holds (the default is not None, the parameter is required,
\* the parameter is unbounded-multi); so a boolean flag whose default is
\* False deduces to bool alone, and one whose default is None to the union
\* of bool and the none-type.
C6_NoneSeededUnlessTrapdoor ==
    ReachedCandidates =>
        /\ (NonePlaceholder \in deduced.seeded)
             = ~(param.default # NoneV \/ param.required \/ IsUnboundedMulti(param))
        /\ deduced.seeded \subseteq {NonePlaceholder}
        /\ (param.kind = "option" /\ param.type = BoolParam /\ ~param.multiple
              /\ ~param.required) =>
             /\ param.default = BoolV(FALSE) => deduced.ty = BoolT
             /\ param.default = NoneV => deduced.ty = OptionalOf(BoolT)

\* a boolean flag of default False deduced as bool, nothing seeded
C6_Witness ==
    /\ ReachedCandidates
    /\ param.kind = "option"
    /\ param.type = BoolParam
    /\ param.default = BoolV(FALSE)
    /\ ~param.required
    /\ deduced.seeded = {}
    /\ deduced.ty = BoolT

\* a multiple option without default: the trapdoor of unbounded-multi
\* alone keeps None from being seeded
C6_WitnessMultiple ==
    /\ ReachedCandidates
    /\ param.kind = "option"
    /\ param.multiple
    /\ ~param.required
    /\ param.default = NoneV
    /\ deduced.seeded = {}

\* a boolean flag of default None deduced as bool or None
C6_WitnessNullableFlag ==
    /\ ReachedCandidates
    /\ param.kind = "option"
    /\ param.type = BoolParam
    /\ param.default = NoneV
    /\ deduced.seeded = {NonePlaceholder}
    /\ deduced.ty = OptionalOf(BoolT)

C7_WitnessExplicit ==
    /\ Returned
    /\ param.annotation = AnnotatedWith(TRUE, Spelled(StrT, << >>))
    /\ param.callback = Callback(Spelled(IntT, << >>))
    /\ deduced.ty = StrT

\* C8: for a single-valued parameter of type click.Choice whose type is
\* deduced from the candidates, a default that is one of the choices gives
\* the literal type alone, and a string default that is none of them gives
\* the union of the literal type and str.
C8_ChoiceDefault ==
    (ReachedCandidates /\ param.type = ChoiceABC /\ ~_is_multi_param(param)
       /\ param.default.v = "str") =>
        /\ deduced.st = "ok"
        /\ deduced.ty =
             IF param.default \in Range(param.type.choices)
             THEN LiteralOf(Range(param.type.choices))
             ELSE UnionOf({LiteralOf(Range(param.type.choices)), StrT})

\* a choice with a default among the choices
C8_Witness ==
    /\ ReachedCandidates
    /\ param.type = ChoiceABC
    /\ ~_is_multi_param(param)
    /\ param.default = StrV("a")
    /\ deduced.ty = LiteralOf({StrV("a"), StrV("b"), StrV("c")})

\* a choice with a string default that is none of the choices
C8_WitnessUnrecognized ==
    /\ ReachedCandidates
    /\ param.type = ChoiceABC
    /\ ~_is_multi_param(param)
    /\ param.default = StrV("d")
    /\ deduced.ty = UnionOf({LiteralOf({StrV("a"), StrV("b"), StrV("c")}), StrT})

(***************************************************************************)
(* _type_of_value on cycles, and the order of a deduced union              *)
(***************************************************************************)
\* the inferred value is a list that holds itself
SelfReferentialList ==
    /\ pc = "inferred"
    /\ value = RefV(1)
    /\ heap[1].c = "list"
    /\ RefV(1) \in Range(heap[1].items)

\* C9: _type_of_value on a self-referential sequence stops at the depth
\* ceiling, returns a type (it warns, it does not raise) and emits exactly
\* one warning.
C9_CycleWarnsOnce ==
    SelfReferentialList =>
        /\ inferred.st = "ok"
        /\ inferred.depth <= DepthLimit + 1
        /\ inferred.warns = 1

\* the finished call checked one option of type str or int, not required
\* and without default, against a hint that is not equivalent, with no
\* registered names and no override
WrongHintOnScalarOption ==
    /\ CallFinished
    /\ outcome.kind = "BadAnnotationError"
    /\ Len(command.params) = 1
    /\ command.params[1].kind = "option"
    /\ command.params[1].type \in {StrParam, IntParam}
    /\ ~command.params[1].required
    /\ command.params[1].default = NoneV
    /\ ~IsMissing(command, 1)
    /\ command.params[1].name \notin DOMAIN command.overrides
    /\ command.known_type_names = NoNames

\* C10: the message of a wrong hint on an option of type str or int
\* without default names the parameter, the declared type and the expected
\* type with the scalar first and None last, whatever the iteration order
\* of the candidate set the union is built from.
C10_ScalarFirstNoneLast ==
    WrongHintOnScalarOption =>
        outcome.errors =
          << [str |-> "parameter '" \o command.params[1].name
                      \o "' has unexpected parameter type '"
                      \o get_type_name(NoNames, command.hints[command.params[1].name]).str
                      \o "' rather than '"
                      \o (IF command.params[1].type = StrParam THEN "str" ELSE "int")
                      \o " | None'",
              reprs |-> << >>] >>

(***************************************************************************)
(* _TypeNameMap.get_type_name                                              *)
(***************************************************************************)
\* the written types a and b are the same plain type, or unions of the
\* same members in any order and form
SameWritten(a, b) ==
    /\ (a.form = "plain") = (b.form = "plain")
    /\ Range(a.args) = Range(b.args)

\* the name the registry data holds for the written type w, if any
NamesRegistered(data, w) ==
    {data[j][2] : j \in {i \in DOMAIN data : SameWritten(data[i][1], w)}}

\* the rendering of a type that is no union: its registered name, else
\* None for the none-type, else the identifier of a class, else its string
\* form (the mark {} with the type beside it)
RenderedAlone(data, ty) ==
    IF NamesRegistered(data, Written("plain", <<ty>>)) # {}
    THEN [str |-> CHOOSE n \in NamesRegistered(data, Written("plain", <<ty>>)) : TRUE,
          reprs |-> << >>]
    ELSE IF ty = _NoneType THEN [str |-> "None", reprs |-> << >>]
    ELSE IF ty.k = "cls" THEN [str |-> ty.n, reprs |-> << >>]
    ELSE [str |-> "{}", reprs |-> <<ty>>]

\* C11: naming asks the registry first, under a key that ignores the
\* order and the form of a union; only a type without entry is rendered:
\* a union as the names of its members, in the order written, joined with
\* " | ", the none-type as None, a class as its identifier, anything else
\* as its string form.
C11_RegistryFirstOrderIndependent ==
    pc = "named" =>
        IF NamesRegistered(registry, named_type) # {}
        THEN /\ Cardinality(NamesRegistered(registry, named_type)) = 1
             /\ type_name.str \in NamesRegistered(registry, named_type)
             /\ type_name.reprs = << >>
        ELSE IF named_type.form = "plain"
        THEN type_name = RenderedAlone(registry, named_type.args[1])
        ELSE LET m == [j \in DOMAIN named_type.args |->
                         RenderedAlone(registry, named_type.args[j])]
             IN  IF Len(m) = 2
                 THEN /\ type_name.str = m[1].str \o " | " \o m[2].str
                      /\ type_name.reprs = m[1].reprs \o m[2].reprs
                 ELSE /\ Len(m) = 3
                      /\ type_name.str = m[1].str \o " | " \o m[2].str \o " | " \o m[3].str
                      /\ type_name.reprs = m[1].reprs \o m[2].reprs \o m[3].reprs

\* a name registered for Optional[str] is returned for None | str
C11_Witness ==
    /\ pc = "named"
    /\ registry = << <<Written("typing", <<StrT, _NoneType>>), "MaybeStr">> >>
    /\ named_type = Written("pep604", <<_NoneType, StrT>>)
    /\ type_name.str = "MaybeStr"

\* a union without entry, one of whose members has one
C11_WitnessJoined ==
    /\ pc = "named"
    /\ registry = << <<Written("plain", <<IntT>>), "Alias">> >>
    /\ named_type = Written("typing", <<_NoneType, IntT>>)
    /\ type_name.str = "None | Alias"

(***************************************************************************)
(* _compare_types on tuples                                                *)
(***************************************************************************)
BothTuples == pc = "compared" /\ _is_tuple(type1) /\ _is_tuple(type2)

\* a tuple type of the form tuple[T, ...]
IsUnboundedSpelling(ty) ==
    Len(ty.elems) = 2 /\ ty.elems[2] = EllipsisT

\* C12: two tuple types compare as equivalent if and only if they have the
\* same arity and the elements at every position are recursively
\* equivalent; tuples of different arity never do, and a fixed-arity tuple
\* never compares equivalent to an unbounded one, in either spelling.
C12_TuplesPositionwise ==
    BothTuples =>
        /\ equivalent =
             (/\ Len(type1.elems) = Len(type2.elems)
              /\ \A j \in DOMAIN type1.elems :
                    TRUE \in _compare_types(type1.elems[j], type2.elems[j]))
        /\ Len(type1.elems) # Len(type2.elems) => ~equivalent
        /\ IsUnboundedSpelling(type1) # IsUnboundedSpelling(type2) => ~equivalent

\* typing.Tuple[str, str] against tuple[str, ...]: same number of
\* arguments, not equivalent
C12_Witness ==
    /\ BothTuples
    /\ type1 = Generic("tuple", "typing", <<StrT, StrT>>)
    /\ type2 = Generic("tuple", "builtin", <<StrT, EllipsisT>>)
    /\ ~equivalent

\* two spellings of a tuple of a tuple, equivalent and not equal
C12_WitnessNested ==
    /\ BothTuples
    /\ type1 = Generic("tuple", "typing", <<Generic("tuple", "builtin", <<StrT, StrT>>)>>)
    /\ type2 = Generic("tuple", "builtin", <<Generic("tuple", "typing", <<StrT, StrT>>)>>)
    /\ equivalent

\* the same elements in another order, not equivalent
C12_WitnessOrder ==
    /\ BothTuples
    /\ type1.elems = <<StrT, IntT>>
    /\ type2.elems = <<IntT, StrT>>
    /\ ~equivalent

(***************************************************************************)
(* check_param_annotations with overrides                                  *)
(***************************************************************************)
\* parameter j is exposed, hinted and has an override
IsOverridden(c, j) ==
    /\ IsExposed(c, j)
    /\ ~IsMissing(c, j)
    /\ c.params[j].name \in DOMAIN c.overrides

\* the loop got to parameter j
WasReached(j) == j <= idx

\* deducing the type of parameter j raises
DeducingRaises(c, j) ==
    \E d \in deduce_type_from_parameter(c.params[j], EmptyHeap) : d.st = "raise"

\* the record of a hint that does not match the override of parameter j
OverrideRecord(c, j) ==
    [str |-> "parameter '" \o c.params[j].name \o "' has unexpected parameter type '"
             \o get_type_name(c.known_type_names, c.hints[c.params[j].name]).str
             \o "' rather than '"
             \o get_type_name(c.known_type_names, c.overrides[c.params[j].name]).str
             \o "'",
     reprs |-> get_type_name(c.known_type_names, c.hints[c.params[j].name]).reprs
               \o get_type_name(c.known_type_names, c.overrides[c.params[j].name]).reprs]

\* C13: for a hinted parameter with an override the expected type is the
\* override and deduction is not run: the call never ends with an
\* exception at that parameter, also when deducing it would raise, and it
\* holds a record for the parameter exactly when the hint is not
\* equivalent to the override; a hinted parameter without override is
\* deduced, so the call ends with the exception its deduction raises.
C13_OverrideBypassesDeduction ==
    CallFinished =>
        \A j \in DOMAIN command.params :
            /\ (IsOverridden(command, j) /\ WasReached(j)) =>
                 /\ outcome.kind \in {"True", "BadAnnotationError"} \/ idx # j
                 /\ (\E k \in DOMAIN errors : errors[k] = OverrideRecord(command, j))
                      = (TRUE \notin _compare_types(
                                       command.hints[command.params[j].name].ty,
                                       command.overrides[command.params[j].name].ty))
            /\ (/\ IsExposed(command, j)
                /\ ~IsMissing(command, j)
                /\ ~IsOverridden(command, j)
                /\ WasReached(j)
                /\ DeducingRaises(command, j)) =>
                 /\ outcome.kind = "TypeError"
                 /\ idx = j

\* a Path parameter whose deduction would raise, with an override equal
\* to its hint: the call returns True
C13_Witness ==
    /\ CallFinished
    /\ Len(command.params) = 1
    /\ IsOverridden(command, 1)
    /\ DeducingRaises(command, 1)
    /\ outcome.kind = "True"

\* an int option whose hint int | None would match its deduced type, with
\* the override str: the call raises the record of the mismatch
C13_WitnessMismatch ==
    /\ CallFinished
    /\ Len(command.params) = 1
    /\ IsOverridden(command, 1)
    /\ command.params[1].type = IntParam
    /\ ~command.params[1].required
    /\ command.hints["foo"].ty = OptionalOf(IntT)
    /\ outcome.kind = "BadAnnotationError"
    /\ outcome.errors = <<OverrideRecord(command, 1)>>

\* an overridden first parameter and a second one whose deduction raises
C13_WitnessSecondDeduced ==
    /\ CallFinished
    /\ Len(command.params) = 2
    /\ IsOverridden(command, 1)
    /\ ~IsOverridden(command, 2)
    /\ outcome.kind = "TypeError"
    /\ idx = 2

(***************************************************************************)
(* _type_of_value on mappings                                              *)
(***************************************************************************)
\* the inferred value is a dict
MappingInferred ==
    /\ pc = "inferred"
    /\ value = RefV(1)
    /\ heap[1].c = "dict"

\* the inferred types of the values vals
InferredTypes(vals) == {_type_of_value(v, heap).ty : v \in vals}

\* C14: _type_of_value on a mapping of any number of entries returns
\* dict[K, V], K the single type of all its keys or the union of their
\* types, V the same of all its values.
C14_MappingKeysAndValues ==
    MappingInferred =>
        /\ inferred.st = "ok"
        /\ inferred.ty =
             Generic("dict", "builtin",
               <<OneOrUnion(InferredTypes({e[1] : e \in Range(heap[1].entries)})),
                 OneOrUnion(InferredTypes({e[2] : e \in Range(heap[1].entries)}))>>)

C15_WitnessPath ==
    /\ Returned
    /\ ReachedCandidates
    /\ param.type = PathOf("callable", OptionalOf(StrT))
    /\ deduced.seeded = {}
    /\ deduced.ty = UnionOf({StrT, _NoneType})

(***************************************************************************)
(* _type_from_param_type on click.Path and on unsupported types            *)
(***************************************************************************)
\* a click.Path without get_type_annotation and with click's own convert
IsPlainPath(pt) ==
    /\ pt.cls = "Path"
    /\ pt.hook = Absent
    /\ pt.convert = ClickConvert

\* the error the resolution of pt ends with, or "none"; a conversion type
\* that no rule matches ends with NotImplementedError
ResolutionError(pt) ==
    IF IsPlainPath(pt) /\ pt.path_type.kind = "callable" /\ pt.path_type.ty = Absent
    THEN "TypeError"
    ELSE IF IsPlainPath(pt) /\ pt.path_type.kind = "other" THEN "TypeError"
    ELSE IF /\ pt.hook = Absent
            /\ pt.convert = ClickConvert \/ pt.convert = CustomConvert(Absent)
            /\ pt.cls \notin {"StringParamType", "BoolParamType", "IntParamType",
                              "IntRange", "FloatParamType", "FloatRange", "DateTime",
                              "UUIDParameterType", "File", "Choice", "Tuple", "Path"}
    THEN "NotImplementedError"
    ELSE "none"

\* the deduced type holds the scalar type ty: as itself or a member, or as
\* the element of the tuple of a multi-valued parameter
HoldsScalar(ty) ==
    LET tops == IF _is_union(deduced.ty) THEN deduced.ty.members ELSE {deduced.ty}
    IN  IF _is_multi_param(param)
        THEN \E x \in tops : _is_tuple(x) /\ ty \in Range(x.elems)
        ELSE ty \in tops

\* C16: the scalar type of a click.Path is str when no path_type is set
\* and the path_type itself when it is a type; a converter without return
\* annotation and a path_type that is neither a type nor callable end in
\* TypeError, a conversion type no rule matches in NotImplementedError; the
\* error leaves deduce_type_from_parameter at once, no type is returned.
C16_PathResolutionAndErrors ==
    ReachedCandidates =>
        /\ (IsPlainPath(param.type) /\ param.type.path_type.kind = "none") =>
             /\ _type_from_param_type(param.type) = [st |-> "ok", ty |-> StrT]
             /\ deduced.st = "ok" => HoldsScalar(StrT)
        /\ (IsPlainPath(param.type) /\ param.type.path_type.kind = "type") =>
             /\ _type_from_param_type(param.type)
                  = [st |-> "ok", ty |-> param.type.path_type.ty]
             /\ deduced.st = "ok" => HoldsScalar(param.type.path_type.ty)
        /\ ResolutionError(param.type) # "none" =>
             /\ _type_from_param_type(param.type).st = "raise"
             /\ deduced.st = "raise"
             /\ deduced.exc = ResolutionError(param.type)
             /\ deduced.warns = 0
        /\ (param.type.cls \in {"Path", "UnprocessedParamType"}
              /\ ResolutionError(param.type) = "none"
              /\ param.default = NoneV) => deduced.st = "ok"

\* a Path whose path_type is neither a type nor callable: TypeError
C16_Witness ==
    /\ ReachedCandidates
    /\ param.type = PathOf("other", Absent)
    /\ deduced.st = "raise"
    /\ deduced.exc = "TypeError"

\* a Path whose converter has no return annotation: TypeError
C16_WitnessConverter ==
    /\ ReachedCandidates
    /\ param.type = PathOf("callable", Absent)
    /\ deduced.st = "raise"
    /\ deduced.exc = "TypeError"

\* a conversion type of click that no rule matches: NotImplementedError
C16_WitnessUnsupported ==
    /\ ReachedCandidates
    /\ param.type = Simple("UnprocessedParamType")
    /\ deduced.st = "raise"
    /\ deduced.exc = "NotImplementedError"

\* a Path with path_type=pathlib.Path on a multiple option
C16_WitnessType ==
    /\ ReachedCandidates
    /\ param.type = PathOf("type", Cls("Path"))
    /\ param.kind = "option"
    /\ param.multiple
    /\ deduced.st = "ok"
    /\ deduced.ty = Builtin("tuple", <<Cls("Path"), EllipsisT>>)

(***************************************************************************)
(* tuple defaults of multiple options                                      *)
(***************************************************************************)
\* a multiple option with a tuple default whose items are int, str or
\* bool, deduced from the candidates with a conversion type that resolves
TupleDefaultOnMultiple ==
    /\ ReachedCandidates
    /\ param.kind = "option"
    /\ param.multiple
    /\ param.default.v = "tuple"
    /\ \A j \in DOMAIN param.default.items :
         param.default.items[j].v \in {"int", "str", "bool"}
    /\ _type_from_param_type(param.type).st = "ok"

\* the element type of the unbounded tuple candidate
ElementType == _type_from_param_type(param.type).ty

\* the unbounded tuple candidate covers every item of the default
CandidateCovers ==
    \/ IsLiteral(ElementType)
         /\ \A j \in DOMAIN param.default.items :
              param.default.items[j] \in ElementType.vals
    \/ _is_union(ElementType)
         /\ \A j \in DOMAIN param.default.items :
              ClassOf(param.default.items[j]) \in ElementType.members
    \/ \A j \in DOMAIN param.default.items :
         ClassOf(param.default.items[j]) = ElementType

\* C17: for a multiple option with a tuple default of int, str and bool
\* items, the fixed tuple type of the default is left out whenever the
\* unbounded tuple candidate covers every item, the empty tuple included,
\* and the result is then the unbounded tuple alone; a default with an
\* item that is not covered adds its fixed tuple type to the union.
C17_CoveredTupleDefaultSubsumed ==
    TupleDefaultOnMultiple =>
        /\ deduced.st = "ok"
        /\ deduced.ty =
             IF CandidateCovers
             THEN Builtin("tuple", <<ElementType, EllipsisT>>)
             ELSE UnionOf({Builtin("tuple", <<ElementType, EllipsisT>>),
                           Builtin("tuple", [j \in DOMAIN param.default.items |->
                                               ClassOf(param.default.items[j])])})

(***************************************************************************)
(* _type_of_value on every default                                         *)
(***************************************************************************)
\* C18: _type_of_value returns a type for every value built of scalars,
\* tuples, lists and mappings of any size, the empty list and the mappings
\* of no, one and three entries included, and never raises; a default that
\* is not None never makes deduce_type_from_parameter fail.
C18_InferenceTotal ==
    /\ pc = "inferred" => inferred.st = "ok"
    /\ (ReachedCandidates /\ param.default # NoneV
          /\ TypeCandidates(param).st = "ok") => deduced.st = "ok"

====
